---- MODULE Spec2Model ----
(***************************************************************************)
(* Verification-spec extraction of paver (src/src/verification.rs).        *)
(*                                                                         *)
(* Text is modelled as a sequence of one-character strings, so trimming,   *)
(* prefix/suffix stripping and line splitting are computed character by    *)
(* character as the Rust code does.                                        *)
(***************************************************************************)
EXTENDS Integers, Sequences, FiniteSets, TLC

(* ------------------------------ bounds --------------------------------- *)
\* longest block content enumerated character by character
MaxLen == 4
\* most lines of a block content assembled from SampleLines
MaxLines == 3
\* most code blocks of a Verification section assembled from SampleBlocks
MaxBlocks == 3

(* --------------------------- text primitives --------------------------- *)
NL == "\n"
BS == "\\"
SP == " "

\* characters str::trim removes (no tab / CR occurs in the enumerated texts)
Whitespace == {" ", "\t", "\r"}

Alphabet == {"a", SP, BS, "$", "#", ">", NL}

RECURSIVE TrimStart(_)
TrimStart(s) ==
  IF s # <<>> /\ Head(s) \in Whitespace THEN TrimStart(Tail(s)) ELSE s

RECURSIVE TrimEnd(_)
TrimEnd(s) ==
  IF s # <<>> /\ s[Len(s)] \in Whitespace
    THEN TrimEnd(SubSeq(s, 1, Len(s) - 1))
    ELSE s

\* str::trim
Trim(s) == TrimEnd(TrimStart(s))

\* str::starts_with
StartsWith(s, p) == Len(s) >= Len(p) /\ SubSeq(s, 1, Len(p)) = p

\* str::ends_with
EndsWith(s, p) ==
  Len(s) >= Len(p) /\ SubSeq(s, Len(s) - Len(p) + 1, Len(s)) = p

\* index of the first newline of s, 0 when there is none
RECURSIVE FirstNL(_, _)
FirstNL(s, i) ==
  IF i > Len(s) THEN 0
  ELSE IF s[i] = NL THEN i
  ELSE FirstNL(s, i + 1)

\* str::lines: split at newlines; a final newline opens no further line
RECURSIVE Lines(_)
Lines(s) ==
  IF s = <<>> THEN <<>>
  ELSE LET i == FirstNL(s, 1) IN
       IF i = 0 THEN <<s>>
       ELSE <<SubSeq(s, 1, i - 1)>> \o Lines(SubSeq(s, i + 1, Len(s)))

(* --------------------------- the extractor ----------------------------- *)
\* locals of extract_commands_from_block before the first line
InitExtractor ==
  [commands |-> <<>>, current_command |-> <<>>, in_continuation |-> FALSE]

\* the test that sends a line to the skip branch
IsBlankOrComment(trimmed) == trimmed = <<>> \/ StartsWith(trimmed, <<"#">>)

\* SkipLine with the `!in_continuation` test left out
SkipLineFlushAlways(st) ==
  IF st.current_command # <<>>
    THEN [st EXCEPT !.commands = Append(@, Trim(st.current_command)),
                    !.current_command = <<>>]
    ELSE st

\* the skip branch: flush only when not mid-continuation, then `continue`
SkipLine(st) ==
  IF ~st.in_continuation /\ st.current_command # <<>>
    THEN [st EXCEPT !.commands = Append(@, Trim(st.current_command)),
                    !.current_command = <<>>]
    ELSE st

\* CommandPart with the prompt marker left in place
CommandPartKeepPrompt(trimmed) == trimmed

\* trimmed.strip_prefix("$ ") or the trimmed line itself
CommandPart(trimmed) ==
  IF StartsWith(trimmed, <<"$", SP>>)
    THEN SubSeq(trimmed, 3, Len(trimmed))
    ELSE trimmed

\* ContinueLine without `current_command.push(' ')`
ContinueLineNoSpace(st, without_backslash) ==
  [st EXCEPT !.current_command =
               (IF st.in_continuation THEN @ ELSE <<>>) \o without_backslash,
             !.in_continuation = TRUE]

\* ContinueLine that trims the text before the backslash before the space
ContinueLineTrimmed(st, without_backslash) ==
  [st EXCEPT !.current_command =
               (IF st.in_continuation THEN @ ELSE <<>>)
                 \o TrimEnd(without_backslash) \o <<SP>>,
             !.in_continuation = TRUE]

\* the fragment ends with a backslash: accumulate, stay in continuation
ContinueLine(st, without_backslash) ==
  [st EXCEPT !.current_command =
               (IF st.in_continuation THEN @ ELSE <<>>)
                 \o without_backslash \o <<SP>>,
             !.in_continuation = TRUE]

\* EndContinuation without `current_command.clear()`
EndContinuationNoClear(st, command_part) ==
  [commands |-> Append(st.commands, Trim(st.current_command \o command_part)),
   current_command |-> st.current_command \o command_part,
   in_continuation |-> FALSE]

\* no backslash while in continuation: emit the trimmed accumulation
EndContinuation(st, command_part) ==
  [commands |-> Append(st.commands, Trim(st.current_command \o command_part)),
   current_command |-> <<>>,
   in_continuation |-> FALSE]

\* no backslash, not in continuation: emit the fragment as it is
StandaloneLine(st, command_part) ==
  [st EXCEPT !.commands = Append(@, command_part)]

\* the three-way branch on the fragment
HandleFragment(st, command_part) ==
  IF EndsWith(command_part, <<BS>>)
    THEN ContinueLine(st, SubSeq(command_part, 1, Len(command_part) - 1))
  ELSE IF st.in_continuation
    THEN EndContinuation(st, command_part)
  ELSE StandaloneLine(st, command_part)

\* one iteration of `for line in content.lines()`
StepLine(st, line) ==
  LET trimmed == Trim(line) IN
  IF IsBlankOrComment(trimmed)
    THEN SkipLine(st)
    ELSE HandleFragment(st, CommandPart(trimmed))

\* after the loop: emit what is left in the accumulator; the return value
FlushRemaining(st) ==
  IF st.current_command # <<>>
    THEN Append(st.commands, Trim(st.current_command))
    ELSE st.commands

RECURSIVE FoldLines(_, _)
FoldLines(st, ls) ==
  IF ls = <<>> THEN st ELSE FoldLines(StepLine(st, Head(ls)), Tail(ls))

\* extract_commands_from_block as a function of the block content
ExtractCommands(content) == FlushRemaining(FoldLines(InitExtractor, Lines(content)))

(* ----------------------------- data model ------------------------------ *)
\* Option<T>: None is the empty sequence, Some(x) the one-element sequence
None == <<>>
Some(x) == <<x>>

\* impl Default for VerificationItem
DefaultItem ==
  [command |-> <<>>,
   working_dir |-> None,
   expected_exit_code |-> Some(0),
   expected_output |-> None,
   timeout_secs |-> Some(30)]

\* MakeItem with every optional field None, as a derived Default would give
MakeItemAllNone(command) ==
  [command |-> command,
   working_dir |-> None,
   expected_exit_code |-> None,
   expected_output |-> None,
   timeout_secs |-> None]

\* VerificationItem { command, ..Default::default() }
MakeItem(command) == [DefaultItem EXCEPT !.command = command]

\* the guard left out: every block is extracted
BlockIsExecutableAlways(block) == TRUE

\* the guard looking at the language tag instead of the parser's flag
BlockIsExecutableByTag(block) ==
  block.language \in {"bash", "sh", "shell", "zsh", "console"}

\* the guard `if block.is_executable`
BlockIsExecutable(block) == block.is_executable

\* the inner `for command in commands { items.push(...) }`
RECURSIVE PushAll(_, _)
PushAll(its, cmds) ==
  IF cmds = <<>> THEN its
  ELSE PushAll(Append(its, MakeItem(Head(cmds))), Tail(cmds))

\* the emptiness check left out
ItemsIsEmptyNever(its) == FALSE

\* the check `if items.is_empty() { return None; }`
ItemsIsEmpty(its) == its = <<>>

(* ------------------ the parsed document (parser side) ------------------ *)
\* a code block without a language tag
NoLang == "none"

\* language tags the classifier takes as shell-like
ShellLanguages == {"bash", "sh", "shell", "zsh", "console"}

\* a line that, trimmed, starts with a shell prompt marker
HasPromptLine(content) ==
  \E i \in 1..Len(Lines(content)) :
     LET t == Trim(Lines(content)[i]) IN
     StartsWith(t, <<"$", SP>>) \/ StartsWith(t, <<">", SP>>)

\* the classifier run once per block at parse time
IsExecutable(language, content) ==
  language \in ShellLanguages \/ HasPromptLine(content)

\* a CodeBlock as the parser finalises it
ParseBlock(language, content) ==
  [language |-> language,
   content |-> content,
   is_executable |-> IsExecutable(language, content)]

\* a Section
MakeSection(name, start_line, code_blocks) ==
  [name |-> name, start_line |-> start_line, code_blocks |-> code_blocks]

\* ParsedDoc::get_section: index of the first section with that exact name, 0 if none
RECURSIVE FirstNamed(_, _, _)
FirstNamed(sections, name, i) ==
  IF i > Len(sections) THEN 0
  ELSE IF sections[i].name = name THEN i
  ELSE FirstNamed(sections, name, i + 1)

GetSection(d, name) == FirstNamed(d.sections, name, 1)

(* ------------------------- documents explored -------------------------- *)
\* every text of at most n characters
Texts(n) == UNION {[1..k -> Alphabet] : k \in 0..n}

SampleLines ==
  { <<>>,
    <<"a", SP, BS>>,
    <<SP, SP, "b", BS>>,
    <<"b">>,
    <<"$", SP, "a">>,
    <<"#", SP, "a">>,
    <<BS>>,
    <<"$", SP, "b", SP, BS>>,
    <<">", SP, "a">>,
    <<SP, "a", SP, SP, BS>>,
    <<SP, "$", SP, "b", SP>> }

\* each line followed by a newline
RECURSIVE JoinLines(_)
JoinLines(ls) ==
  IF ls = <<>> THEN <<>> ELSE Head(ls) \o <<NL>> \o JoinLines(Tail(ls))

LineTexts(n) == {JoinLines(ls) : ls \in UNION {[1..k -> SampleLines] : k \in 0..n}}

Cargo == <<"c", "a", "r", "g", "o">>
CargoTest == Cargo \o <<SP, "t", "e", "s", "t">>
CargoBuild == Cargo \o <<SP, "b", "u", "i", "l", "d">>
DashRelease == <<"-", "-", "r", "e", "l", "e", "a", "s", "e">>
DashFeaturesAll ==
  <<"-", "-", "f", "e", "a", "t", "u", "r", "e", "s", SP, "a", "l", "l">>
PromptCargoTest == <<"$", SP>> \o CargoTest

\* tests::handle_line_continuations
ContinuationContent ==
  CargoBuild \o <<SP, BS, NL>> \o
  <<SP, SP>> \o DashRelease \o <<SP, BS, NL>> \o
  <<SP, SP>> \o DashFeaturesAll \o <<NL>>
ContinuationCommand ==
  CargoBuild \o <<SP, SP>> \o DashRelease \o <<SP, SP>> \o DashFeaturesAll

ABContent == <<"a", SP, BS, NL, "b">>
ABCommand == <<"a", SP, SP, "b">>

SampleBlocks ==
  { ParseBlock("bash", <<"a", NL, "b", NL>>),
    ParseBlock("json", <<"a", NL>>),
    ParseBlock(NoLang, <<"$", SP, "a", NL>>),
    ParseBlock(NoLang, <<"b", NL>>),
    ParseBlock("sh", <<"a", SP, BS, NL, "b", NL>>),
    ParseBlock("bash", <<"#", SP, "a", NL>>),
    ParseBlock("zsh", <<"b", SP, BS>>) }

BlockSeqs(n) == UNION {[1..k -> SampleBlocks] : k \in 0..n}

MakeDoc(sections) == [path |-> "test.md", sections |-> sections]

\* a document whose only section is Verification with one block
OneBlockDoc(language, content) ==
  MakeDoc(<<MakeSection("Verification", 3, <<ParseBlock(language, content)>>)>>)

ExhaustiveDocs ==
  {OneBlockDoc(l, c) : l \in {"bash", NoLang}, c \in Texts(MaxLen)}

LineDocs ==
  {OneBlockDoc(l, c) : l \in {"bash", NoLang}, c \in LineTexts(MaxLines)}

ExampleDocs ==
  { OneBlockDoc("bash", ContinuationContent),
    OneBlockDoc("bash", ABContent),
    OneBlockDoc(NoLang, PromptCargoTest \o <<NL>>),
    OneBlockDoc(NoLang, CargoTest \o <<NL>>),
    OneBlockDoc("console", PromptCargoTest \o <<NL>>) }

Purpose == MakeSection("Purpose", 3, <<>>)

SectionShapes(bs) ==
  { <<MakeSection("Verification", 3, bs)>>,
    <<Purpose, MakeSection("Verification", 6, bs)>>,
    <<Purpose, MakeSection("verification", 6, bs)>>,
    <<MakeSection("Verification", 3, bs), MakeSection("Verification", 9, <<ParseBlock("bash", <<"a">>)>>)>>,
    <<Purpose>>,
    <<>> }

BlockDocs == {MakeDoc(ss) : ss \in UNION {SectionShapes(bs) : bs \in BlockSeqs(MaxBlocks)}}

Docs == ExhaustiveDocs \cup LineDocs \cup ExampleDocs \cup BlockDocs

(* --------------------------- state machine ----------------------------- *)
VARIABLES
  doc,              \* the ParsedDoc passed to extract_verification_spec
  pc,               \* position in extract_verification_spec
  section,          \* index of the section get_section returned, 0 before
  block_idx,        \* position of `for block in &section.code_blocks`
  lines,            \* lines of the current block still to be read
  commands,         \* commands of the current block
  current_command,  \* accumulator of the extractor
  in_continuation,  \* continuation flag of the extractor
  items,            \* items collected so far
  result            \* what extract_verification_spec returned

vars ==
  <<doc, pc, section, block_idx, lines, commands, current_command,
    in_continuation, items, result>>

Pending == [tag |-> "Pending", source_file |-> "", section_line |-> 0, items |-> <<>>]
ReturnedNone == [tag |-> "None", source_file |-> "", section_line |-> 0, items |-> <<>>]
ReturnedSome(source_file, section_line, its) ==
  [tag |-> "Some", source_file |-> source_file, section_line |-> section_line,
   items |-> its]

Init ==
  /\ doc \in Docs
  /\ pc = "get_section"
  /\ section = 0
  /\ block_idx = 0
  /\ lines = <<>>
  /\ commands = <<>>
  /\ current_command = <<>>
  /\ in_continuation = FALSE
  /\ items = <<>>
  /\ result = Pending

CodeBlocks == doc.sections[section].code_blocks

ExtractorState ==
  [commands |-> commands, current_command |-> current_command,
   in_continuation |-> in_continuation]

\* doc.get_section("Verification")? finds nothing
NoSection ==
  /\ pc = "get_section"
  /\ GetSection(doc, "Verification") = 0
  /\ result' = ReturnedNone
  /\ pc' = "done"
  /\ UNCHANGED <<doc, section, block_idx, lines, commands, current_command,
                 in_continuation, items>>

\* section.code_blocks.is_empty()
NoCodeBlocks ==
  /\ pc = "get_section"
  /\ GetSection(doc, "Verification") # 0
  /\ doc.sections[GetSection(doc, "Verification")].code_blocks = <<>>
  /\ section' = GetSection(doc, "Verification")
  /\ result' = ReturnedNone
  /\ pc' = "done"
  /\ UNCHANGED <<doc, block_idx, lines, commands, current_command,
                 in_continuation, items>>

\* let mut items = Vec::new(); and the loop over the blocks starts
EnterLoop ==
  /\ pc = "get_section"
  /\ GetSection(doc, "Verification") # 0
  /\ doc.sections[GetSection(doc, "Verification")].code_blocks # <<>>
  /\ section' = GetSection(doc, "Verification")
  /\ block_idx' = 1
  /\ items' = <<>>
  /\ pc' = "for_block"
  /\ UNCHANGED <<doc, lines, commands, current_command, in_continuation, result>>

\* a block that is not executable is passed over
SkipBlock ==
  /\ pc = "for_block"
  /\ block_idx <= Len(CodeBlocks)
  /\ ~BlockIsExecutable(CodeBlocks[block_idx])
  /\ block_idx' = block_idx + 1
  /\ UNCHANGED <<doc, pc, section, lines, commands, current_command,
                 in_continuation, items, result>>

\* extract_commands_from_block(&block.content) is entered
BeginExtract ==
  /\ pc = "for_block"
  /\ block_idx <= Len(CodeBlocks)
  /\ BlockIsExecutable(CodeBlocks[block_idx])
  /\ lines' = Lines(CodeBlocks[block_idx].content)
  /\ commands' = InitExtractor.commands
  /\ current_command' = InitExtractor.current_command
  /\ in_continuation' = InitExtractor.in_continuation
  /\ pc' = "for_line"
  /\ UNCHANGED <<doc, section, block_idx, items, result>>

\* one iteration of the loop over the lines
ProcessLine ==
  /\ pc = "for_line"
  /\ lines # <<>>
  /\ LET st == StepLine(ExtractorState, Head(lines)) IN
       /\ commands' = st.commands
       /\ current_command' = st.current_command
       /\ in_continuation' = st.in_continuation
  /\ lines' = Tail(lines)
  /\ UNCHANGED <<doc, pc, section, block_idx, items, result>>

\* the lines are exhausted: flush and return the commands
ReturnCommands ==
  /\ pc = "for_line"
  /\ lines = <<>>
  /\ commands' = FlushRemaining(ExtractorState)
  /\ pc' = "push_items"
  /\ UNCHANGED <<doc, section, block_idx, lines, current_command,
                 in_continuation, items, result>>

\* every command of the block becomes an item
PushItems ==
  /\ pc = "push_items"
  /\ items' = PushAll(items, commands)
  /\ block_idx' = block_idx + 1
  /\ pc' = "for_block"
  /\ UNCHANGED <<doc, section, lines, commands, current_command,
                 in_continuation, result>>

\* after the loop: no item, no spec
ReturnNone ==
  /\ pc = "for_block"
  /\ block_idx > Len(CodeBlocks)
  /\ ItemsIsEmpty(items)
  /\ result' = ReturnedNone
  /\ pc' = "done"
  /\ UNCHANGED <<doc, section, block_idx, lines, commands, current_command,
                 in_continuation, items>>

\* after the loop: the spec
ReturnSome ==
  /\ pc = "for_block"
  /\ block_idx > Len(CodeBlocks)
  /\ ~ItemsIsEmpty(items)
  /\ result' = ReturnedSome(doc.path, doc.sections[section].start_line, items)
  /\ pc' = "done"
  /\ UNCHANGED <<doc, section, block_idx, lines, commands, current_command,
                 in_continuation, items>>

Next ==
  \/ NoSection
  \/ NoCodeBlocks
  \/ EnterLoop
  \/ SkipBlock
  \/ BeginExtract
  \/ ProcessLine
  \/ ReturnCommands
  \/ PushItems
  \/ ReturnNone
  \/ ReturnSome

Spec == Init /\ [][Next]_vars

(* ------------------------ notions of the claims ------------------------ *)
\* the command strings of a list of items
ItemCommands(its) == [i \in 1..Len(its) |-> its[i].command]

\* the code blocks of the section get_section("Verification") returns
VerificationBlocks(d) ==
  IF GetSection(d, "Verification") = 0 THEN <<>>
  ELSE d.sections[GetSection(d, "Verification")].code_blocks

\* the commands of the executable blocks, block after block
RECURSIVE FlatCommands(_)
FlatCommands(bs) ==
  IF bs = <<>> THEN <<>>
  ELSE (IF Head(bs).is_executable THEN ExtractCommands(Head(bs).content) ELSE <<>>)
         \o FlatCommands(Tail(bs))

\* the lines of the block being extracted, and those already read
BlockLines == Lines(CodeBlocks[block_idx].content)
Consumed == SubSeq(BlockLines, 1, Len(BlockLines) - Len(lines))

\* the fragment of a line: trimmed, prompt marker stripped
Fragment(line) == CommandPart(Trim(line))

\* a line that reaches the fragment handling
HasFragment(line) == ~IsBlankOrComment(Trim(line))

StripBackslash(f) == SubSeq(f, 1, Len(f) - 1)

\* the extractor's state after reading the lines ls of a block
After(ls) == FoldLines(InitExtractor, ls)

\* ls is k >= 1 lines whose fragments end with a backslash, then one whose
\* fragment does not
IsRun(ls) ==
  /\ Len(ls) >= 2
  /\ \A i \in 1..Len(ls) : HasFragment(ls[i])
  /\ \A i \in 1..(Len(ls) - 1) : EndsWith(Fragment(ls[i]), <<BS>>)
  /\ ~EndsWith(Fragment(ls[Len(ls)]), <<BS>>)

\* each continued fragment without its backslash plus one space, then the last
RECURSIVE RunConcat(_)
RunConcat(ls) ==
  IF Len(ls) = 1 THEN Fragment(ls[1])
  ELSE StripBackslash(Fragment(Head(ls))) \o <<SP>> \o RunConcat(Tail(ls))

\* the lines read so far end with a run that started with the extractor idle
EndsWithRunFrom(j) ==
  /\ j \in 1..Len(Consumed)
  /\ IsRun(SubSeq(Consumed, j, Len(Consumed)))
  /\ ~After(SubSeq(Consumed, 1, j - 1)).in_continuation

(* ------------------------------- claims -------------------------------- *)

\* C1: extract_verification_spec returns a spec exactly when the document has
\* a section named "Verification" and at least one command is extracted from
\* an executable block of it; a returned spec never has an empty item list.
C1_SpecIffCommand ==
  pc = "done" =>
    /\ (result.tag = "Some") <=>
         (/\ \E i \in 1..Len(doc.sections) : doc.sections[i].name = "Verification"
          /\ \E i \in 1..Len(VerificationBlocks(doc)) :
               /\ VerificationBlocks(doc)[i].is_executable
               /\ ExtractCommands(VerificationBlocks(doc)[i].content) # <<>>)
    /\ result.tag = "Some" => result.items # <<>>
    /\ result.tag \in {"Some", "None"}

\* a Verification section with an executable block that yields no command
C1_Witness ==
  /\ pc = "done"
  /\ result.tag = "None"
  /\ section # 0
  /\ \E i \in 1..Len(CodeBlocks) : CodeBlocks[i].is_executable

\* C2: the commands of a returned spec are the concatenation, in document
\* order, of the commands extracted from the executable blocks; blocks that
\* are not executable contribute nothing, and there is one item per command.
C2_ItemsAreFlatCommands ==
  (pc = "done" /\ result.tag = "Some") =>
    /\ ItemCommands(result.items) = FlatCommands(VerificationBlocks(doc))
    /\ Len(result.items) = Len(FlatCommands(VerificationBlocks(doc)))

\* a spec from two executable blocks and a block that is not executable
C2_Witness ==
  /\ pc = "done"
  /\ result.tag = "Some"
  /\ Len(result.items) >= 3
  /\ \E i, j, k \in 1..Len(CodeBlocks) :
       /\ i < j /\ j < k
       /\ CodeBlocks[i].is_executable
       /\ ~CodeBlocks[j].is_executable
       /\ CodeBlocks[k].is_executable
       /\ ExtractCommands(CodeBlocks[i].content) # ExtractCommands(CodeBlocks[k].content)

\* C3: every item of a returned spec has a non-empty command string.
C3_CommandsNonEmpty ==
  (pc = "done" /\ result.tag = "Some") =>
    \A i \in 1..Len(result.items) : result.items[i].command # <<>>

\* the commands of the current block when its line i, `$ c`, is replaced by `c`
WithoutPrompt(i) ==
  FlushRemaining(After([BlockLines EXCEPT ![i] = SubSeq(@, 3, Len(@))]))

\* the text c that follows the prompt marker of line i
AfterPrompt(i) == SubSeq(BlockLines[i], 3, Len(BlockLines[i]))

\* C4 as stated: for every text c, the line `$ c` extracts as the line `c`.
C4_PromptLawAnyText ==
  pc = "push_items" =>
    \A i \in 1..Len(BlockLines) :
      StartsWith(BlockLines[i], <<"$", SP>>) => WithoutPrompt(i) = commands

\* c starts with a character that is neither whitespace nor `#`, and its
\* trimmed text does not itself start with `$ `
PlainCommandText(c) ==
  /\ c # <<>>
  /\ Head(c) \notin Whitespace \cup {"#"}
  /\ ~StartsWith(Trim(c), <<"$", SP>>)

\* C4 amended: the line `$ c` extracts as the line `c` when c starts with a
\* character that is neither whitespace nor `#` and trimmed c does not start
\* with `$ `.
C4_PromptLaw ==
  pc = "push_items" =>
    \A i \in 1..Len(BlockLines) :
      (StartsWith(BlockLines[i], <<"$", SP>>) /\ PlainCommandText(AfterPrompt(i)))
        => WithoutPrompt(i) = commands

\* a prompted line with a plain command after another line, commands extracted
C4_Witness ==
  /\ pc = "push_items"
  /\ Len(commands) >= 2
  /\ \E i \in 2..Len(BlockLines) :
       /\ StartsWith(BlockLines[i], <<"$", SP>>)
       /\ PlainCommandText(AfterPrompt(i))

\* C5: k >= 1 lines whose fragments end with a backslash followed by a line
\* whose fragment does not give exactly one command: the trimmed concatenation
\* of each continued fragment without its backslash plus one space, then the
\* last fragment; `a \`, `b` gives `a  b`, and the cargo build lines give
\* `cargo build  --release  --features all`.
C5_ContinuationLaw ==
  /\ pc = "for_line" =>
       \A j \in 1..Len(Consumed) :
         EndsWithRunFrom(j) =>
           /\ commands = Append(After(SubSeq(Consumed, 1, j - 1)).commands,
                                Trim(RunConcat(SubSeq(Consumed, j, Len(Consumed)))))
           /\ ~in_continuation
           /\ current_command = <<>>
  /\ (pc = "push_items" /\ CodeBlocks[block_idx].content = ABContent)
       => commands = <<ABCommand>>
  /\ (pc = "push_items" /\ CodeBlocks[block_idx].content = ContinuationContent)
       => commands = <<ContinuationCommand>>

\* a run of two continued lines has just been closed by a third line
C5_Witness ==
  /\ pc = "for_line"
  /\ Len(Consumed) >= 3
  /\ EndsWithRunFrom(Len(Consumed) - 2)
  /\ commands # <<>>

\* C6: an untagged block of the Verification section contributes commands
\* exactly when one of its lines, trimmed, starts with `$ ` or `> `; untagged
\* `$ cargo test` gives the one command `cargo test`, untagged `cargo test`
\* gives no spec; a block with a shell-like tag contributes its commands
\* unconditionally.
C6_UntaggedNeedsPrompt ==
  (pc = "done" /\ Len(VerificationBlocks(doc)) = 1) =>
    LET b == VerificationBlocks(doc)[1] IN
    /\ b.language = NoLang =>
         ((result.tag = "Some") <=>
            \E i \in 1..Len(Lines(b.content)) :
               \/ StartsWith(Trim(Lines(b.content)[i]), <<"$", SP>>)
               \/ StartsWith(Trim(Lines(b.content)[i]), <<">", SP>>))
    /\ b.language \in ShellLanguages =>
         ItemCommands(items) = ExtractCommands(b.content)
    /\ (b.language = NoLang /\ b.content = PromptCargoTest \o <<NL>>) =>
         (result.tag = "Some" /\ ItemCommands(result.items) = <<CargoTest>>)
    /\ (b.language = NoLang /\ b.content = CargoTest \o <<NL>>) =>
         result.tag = "None"

\* the untagged block `$ cargo test` has given its spec
C6_Witness ==
  /\ pc = "done"
  /\ doc = OneBlockDoc(NoLang, PromptCargoTest \o <<NL>>)
  /\ result.tag = "Some"

\* C7: every item carries expected_exit_code = Some(0), timeout_secs =
\* Some(30), working_dir = None and expected_output = None.
C7_ItemDefaults ==
  \A its \in {items, result.items} :
    \A i \in 1..Len(its) :
      /\ its[i].expected_exit_code = Some(0)
      /\ its[i].timeout_secs = Some(30)
      /\ its[i].working_dir = None
      /\ its[i].expected_output = None
      /\ DOMAIN its[i] =
           {"command", "working_dir", "expected_exit_code", "expected_output",
            "timeout_secs"}

\* a spec with two items of different commands
C7_Witness ==
  /\ pc = "done"
  /\ result.tag = "Some"
  /\ Len(result.items) >= 2
  /\ result.items[1].command # result.items[2].command

\* the last two lines read are a continued line, read with the extractor idle,
\* and the line that closes it; some text stands before the backslash
ClosedPair ==
  /\ pc = "for_line"
  /\ Len(Consumed) >= 2
  /\ EndsWithRunFrom(Len(Consumed) - 1)
  /\ Trim(StripBackslash(Fragment(Consumed[Len(Consumed) - 1]))) # <<>>

BeforeBackslash == StripBackslash(Fragment(Consumed[Len(Consumed) - 1]))
NextLineText == Fragment(Consumed[Len(Consumed)])

\* C8 as stated: exactly one space stands between the text before the
\* backslash and the text of the next line.
C8_SingleSpace ==
  ClosedPair =>
    commands[Len(commands)] = Trim(BeforeBackslash) \o <<SP>> \o Trim(NextLineText)

\* C8 amended: the command is the text before the backslash with the
\* whitespace that preceded the backslash kept, one space, and the fragment of
\* the next line; the indentation of the two lines has no effect.
C8_SpaceAfterKeptWhitespace ==
  ClosedPair =>
    commands[Len(commands)] = TrimStart(BeforeBackslash) \o <<SP>> \o NextLineText

\* an indented continued line with a space before its backslash, closed
C8_Witness ==
  /\ ClosedPair
  /\ BeforeBackslash # TrimEnd(BeforeBackslash)
  /\ Head(Consumed[Len(Consumed) - 1]) = SP

\* the extractor is about to read a comment line while in continuation
CommentInContinuation ==
  /\ pc = "for_line"
  /\ lines # <<>>
  /\ in_continuation
  /\ StartsWith(Trim(Head(lines)), <<"#">>)

\* C9 as stated: a comment line read in continuation mode is handled like any
\* other fragment.
C9_CommentIsFragment ==
  [][CommentInContinuation =>
       LET st == HandleFragment(ExtractorState, Fragment(Head(lines))) IN
       /\ commands' = st.commands
       /\ current_command' = st.current_command
       /\ in_continuation' = st.in_continuation]_vars

\* C9 amended: a comment line read in continuation mode is dropped: nothing
\* is appended to the accumulator, nothing is emitted, and the extractor
\* stays in continuation mode.
C9_CommentIsDropped ==
  [][CommentInContinuation =>
       /\ lines' = Tail(lines)
       /\ UNCHANGED <<commands, current_command, in_continuation>>]_vars

\* a comment line was the last line read, and the continuation is still open
C9_Witness ==
  /\ pc = "for_line"
  /\ in_continuation
  /\ Len(Consumed) >= 2
  /\ StartsWith(Trim(Consumed[Len(Consumed)]), <<"#">>)
  /\ current_command # <<>>

\* the line read by a step of the loop over the lines
ReadsLine == pc = "for_line" /\ lines # <<>> /\ lines' = Tail(lines)

\* C10: when the extractor is not in continuation mode its accumulator is
\* empty; a blank or comment line never emits a command; a command is emitted
\* only by a line with a fragment that has no trailing backslash, one at a
\* time, or by the flush at the end of the input.
C10_IdleAccumulatorEmpty ==
  /\ [](pc = "for_line" => (~in_continuation => current_command = <<>>))
  /\ [][(ReadsLine /\ ~HasFragment(Head(lines))) => commands' = commands]_vars
  /\ [][(ReadsLine /\ commands' # commands) =>
          /\ HasFragment(Head(lines))
          /\ ~EndsWith(Fragment(Head(lines)), <<BS>>)
          /\ \E c \in {Fragment(Head(lines)), Trim(current_command \o Fragment(Head(lines)))} :
               commands' = Append(commands, c)]_vars

\* idle again after a continuation was closed, with a blank line read since
C10_Witness ==
  /\ pc = "for_line"
  /\ ~in_continuation
  /\ Len(commands) >= 1
  /\ Len(Consumed) >= 3
  /\ Trim(Consumed[Len(Consumed)]) = <<>>
  /\ IsRun(SubSeq(Consumed, 1, Len(Consumed) - 1))

====
